---- MODULE Spec2Model ----
(***************************************************************************)
(* Model of src/function_app.py: the Event Grid handler file_drop_trigger, *)
(* the blob lease it takes and the queue output binding it writes.         *)
(*                                                                         *)
(* The model starts where the platform calls the handler; the decorators   *)
(* of lines 22-27 are not part of it.  Line 67 passes the name _ to the    *)
(* credential constructor: the module never binds it, so whether the line  *)
(* raises NameError depends on the runtime namespace (builtins), which is  *)
(* the variable underscore_bound.                                          *)
(*                                                                         *)
(* Python strings, JSON texts included, are sequences of one-character     *)
(* strings.  The characters are the printable ASCII characters, the        *)
(* control characters \n \r \t \f and the non-ASCII character e-acute.     *)
(*                                                                         *)
(* The two remote calls, acquire_lease (line 69) and release (line 82),    *)
(* are two steps each: the blob store handles the request, and later the   *)
(* answer reaches the handler.  Other invocations run in between.          *)
(***************************************************************************)
EXTENDS Integers, Sequences, FiniteSets, TLC

\* Number of invocations the platform starts (several may run at once).
NumInvocations == 2

Inv == 1..NumInvocations

\* Cap of the counter of acquire_lease calls of an invocation.
MaxAttempts == 2

\* Lease holder recorded by the blob store: 0 for none, an invocation, or
\* External for a process that is not an invocation of this handler.
External == NumInvocations + 1

----------------------------------------------------------------------------
\* Python values that occur in an event: str, int, None; Absent marks a key
\* that the payload mapping does not contain.

Str(s) == [t |-> "str", v |-> s]
Num(digits) == [t |-> "int", v |-> digits]
None == [t |-> "null", v |-> <<>>]
Absent == [t |-> "absent", v |-> <<>>]

\* str.split(sep): the segments of s between the occurrences of sep.
RECURSIVE Split(_, _)
Split(s, sep) ==
    IF \A k \in 1..Len(s) : s[k] # sep
    THEN <<s>>
    ELSE LET k == CHOOSE x \in 1..Len(s) :
                      s[x] = sep /\ \A y \in 1..(x - 1) : s[y] # sep
         IN  <<SubSeq(s, 1, k - 1)>> \o Split(SubSeq(s, k + 1, Len(s)), sep)

\* event.subject.split("/")[-1]
BlobNameOf(subject) ==
    LET parts == Split(subject, "/") IN parts[Len(parts)]

\* dict.get(key): the value, or None when the key is not in the mapping.
GetEmptyDefault(data, key) ==
    IF data[key] = Absent THEN Str(<<>>) ELSE data[key]
Get(data, key) == IF data[key] = Absent THEN None ELSE data[key]

\* The characters space..~, which json.dumps (ensure_ascii) copies as they
\* are, except the double quote and the backslash.  (The backquote is left
\* out: it cannot be written in a string here and occurs in no input.)
PlainAscii ==
    {" ", "!", "\"", "#", "$", "%", "&", "'", "(", ")", "*", "+", ",", "-",
     ".", "/", "0", "1", "2", "3", "4", "5", "6", "7", "8", "9", ":", ";",
     "<", "=", ">", "?", "@", "A", "B", "C", "D", "E", "F", "G", "H", "I",
     "J", "K", "L", "M", "N", "O", "P", "Q", "R", "S", "T", "U", "V", "W",
     "X", "Y", "Z", "[", "\\", "]", "^", "_", "a", "b", "c", "d", "e",
     "f", "g", "h", "i", "j", "k", "l", "m", "n", "o", "p", "q", "r", "s",
     "t", "u", "v", "w", "x", "y", "z", "{", "|", "}", "~"}

\* The four hexadecimal digits of the code point of a character that is
\* neither plain nor one with a short escape.
Hex4(c) == CASE c = "é" -> <<"0", "0", "e", "9">>

\* json.dumps of one character of a str.
EscapeChar(c) ==
    IF c = "\"" THEN <<"\\", "\"">>
    ELSE IF c = "\\" THEN <<"\\", "\\">>
    ELSE IF c = "\n" THEN <<"\\", "n">>
    ELSE IF c = "\r" THEN <<"\\", "r">>
    ELSE IF c = "\t" THEN <<"\\", "t">>
    ELSE IF c = "\f" THEN <<"\\", "f">>
    ELSE IF c \in PlainAscii THEN <<c>>
    ELSE <<"\\", "u">> \o Hex4(c)

\* json.dumps of a str, without the quotes around it: the escapes of its
\* characters in order (computed by halves, to keep the recursion shallow).
RECURSIVE Escape(_)
Escape(s) ==
    IF s = <<>> THEN <<>>
    ELSE IF Len(s) = 1 THEN EscapeChar(s[1])
    ELSE LET half == Len(s) \div 2
         IN  Escape(SubSeq(s, 1, half)) \o Escape(SubSeq(s, half + 1, Len(s)))

JsonStr(s) == <<"\"">> \o Escape(s) \o <<"\"">>

\* json.dumps of a scalar value.
JsonValue(val) ==
    IF val.t = "str" THEN JsonStr(val.v)
    ELSE IF val.t = "int" THEN val.v
    ELSE <<"n", "u", "l", "l">>

\* The keys of the dict literal, in insertion order, each with its spelling.
ResultKeys ==
    <<[name |-> "id", chars |-> <<"i", "d">>],
      [name |-> "source", chars |-> <<"s", "o", "u", "r", "c", "e">>],
      [name |-> "blob_name", chars |-> <<"b", "l", "o", "b", "_", "n", "a", "m", "e">>],
      [name |-> "blob_url", chars |-> <<"b", "l", "o", "b", "_", "u", "r", "l">>],
      [name |-> "blob_type", chars |-> <<"b", "l", "o", "b", "_", "t", "y", "p", "e">>],
      [name |-> "content_type", chars |-> <<"c", "o", "n", "t", "e", "n", "t", "_", "t", "y", "p", "e">>],
      [name |-> "content_length", chars |-> <<"c", "o", "n", "t", "e", "n", "t", "_", "l", "e", "n", "g", "t", "h">>],
      [name |-> "topic", chars |-> <<"t", "o", "p", "i", "c">>],
      [name |-> "subkect", chars |-> <<"s", "u", "b", "k", "e", "c", "t">>],
      [name |-> "event_type", chars |-> <<"e", "v", "e", "n", "t", "_", "t", "y", "p", "e">>]>>

\* json.dumps of a dict with str keys: {"k": v, "k": v, ...}
RECURSIVE JsonMembers(_, _)
JsonMembers(d, keys) ==
    IF keys = <<>> THEN <<>>
    ELSE JsonStr(Head(keys).chars) \o <<":", " ">>
         \o JsonValue(d[Head(keys).name])
         \o (IF Tail(keys) = <<>> THEN <<>> ELSE <<",", " ">>)
         \o JsonMembers(d, Tail(keys))

JsonDumpsDict(d, keys) == <<"{">> \o JsonMembers(d, keys) \o <<"}">>

----------------------------------------------------------------------------
\* The notifications the platform can deliver.

\* One blob: every notification is about it, so that any two invocations
\* compete for the same lease.
UrlA == <<"h", "/", "a">>
Urls == {UrlA}

FullData ==
    [ismap |-> TRUE, url |-> Str(UrlA), blobType |-> Str(<<"B">>),
     contentType |-> Str(<<"t">>), contentLength |-> Num(<<"4", "2">>)]

\* A complete blob-created event for blob a.
NotifFull ==
    [id |-> Str(<<"1">>), subject |-> Str(<<"/", "c", "/", "a">>),
     topic |-> Str(<<"T">>), event_type |-> Str(<<"E">>), data |-> FullData]

\* A second event for the blob: quote and backslash in the id, subject ending in
\* "/", a newline and a non-ASCII character in the topic, and none of the
\* optional payload fields blobType, contentType, contentLength.
NotifSparse ==
    [id |-> Str(<<"\"", "\\">>), subject |-> Str(<<"c", "/">>),
     topic |-> Str(<<"T", "\n", "é">>), event_type |-> Str(<<"E">>),
     data |-> [ismap |-> TRUE, url |-> Str(UrlA), blobType |-> Absent,
               contentType |-> Absent, contentLength |-> Absent]]

\* An event whose payload is not a mapping (get_json() returns a list).
NotifMalformed ==
    [NotifFull EXCEPT !.data = [FullData EXCEPT !.ismap = FALSE]]

Notifications == <<NotifFull, NotifSparse, NotifMalformed>>

NotifIds == 1..Len(Notifications)

----------------------------------------------------------------------------
\* Lines 46-62: the dict literal passed to json.dumps.
ResultDict(n) ==
    [id |-> n.id,
     source |-> Str(<<"f", "i", "l", "e">>),
     blob_name |-> Str(BlobNameOf(n.subject.v)),
     blob_url |-> Get(n.data, "url"),
     blob_type |-> Get(n.data, "blobType"),
     content_type |-> Get(n.data, "contentType"),
     content_length |-> Get(n.data, "contentLength"),
     topic |-> n.topic,
     subkect |-> n.subject,
     event_type |-> n.event_type]

\* Line 49: result = json.dumps({...})
ResultOf(n) == JsonDumpsDict(ResultDict(n), ResultKeys)

\* Line 70: the value handed to msg.set, json.dumps(result) of the str result.
QueueValue(result) == JsonStr(result)

----------------------------------------------------------------------------
\* State.

VARIABLES
    underscore_bound, \* whether the name _ of line 67 resolves at run time
    pc,               \* position of each invocation
    event,            \* the notification delivered to each invocation
    result,           \* local result (line 49) of each invocation
    lease,            \* local lease of each invocation: TRUE for a handle
    out,              \* values set on the msg output binding, per invocation
    log,              \* levels logged, per invocation
    holder,           \* blob store: invocation holding the lease of a blob
    exists,           \* blob store: whether the blob exists
    answer,           \* answer of the store on its way to the invocation
    acq,              \* outcome of lines 65-69, per invocation
    attempts,         \* acquire_lease calls made, per invocation
    emitFailed,       \* whether line 70 raised, per invocation
    releaseCalls,     \* lease.release calls made, per invocation
    releaseResult,    \* outcome of the release call, per invocation
    replays           \* invocations that had returned for the same notification
                      \* when this one started

vars ==
    <<underscore_bound, pc, event, result, lease, out, log, holder, exists,
      answer, acq, attempts, emitFailed, releaseCalls, releaseResult, replays>>

Ended(i) == pc[i] \in {"done", "raised"}

Notif(i) == Notifications[event[i]]

\* The blob an invocation works on: the payload url.
UrlOf(i) == Notif(i).data.url.v

Init ==
    /\ underscore_bound \in BOOLEAN
    /\ pc = [i \in Inv |-> "idle"]
    /\ event = [i \in Inv |-> 1]
    /\ result = [i \in Inv |-> <<>>]
    /\ lease = [i \in Inv |-> FALSE]
    /\ out = [i \in Inv |-> <<>>]
    /\ log = [i \in Inv |-> <<>>]
    /\ holder = [u \in Urls |-> 0]
    /\ exists = [u \in Urls |-> TRUE]
    /\ answer = [i \in Inv |-> "none"]
    /\ acq = [i \in Inv |-> "none"]
    /\ attempts = [i \in Inv |-> 0]
    /\ emitFailed = [i \in Inv |-> FALSE]
    /\ releaseCalls = [i \in Inv |-> 0]
    /\ releaseResult = [i \in Inv |-> "none"]
    /\ replays = [i \in Inv |-> {}]

----------------------------------------------------------------------------
\* Lines 45-62: the platform calls the handler with a notification; the
\* handler sets lease = None, reads the payload and builds result.  These
\* lines are outside the try: a payload that is not a mapping raises at
\* line 48 and the exception leaves the handler.
Start(i, n) ==
    /\ pc[i] = "idle"
    /\ event' = [event EXCEPT ![i] = n]
    /\ replays' = [replays EXCEPT ![i] =
                      {j \in Inv : pc[j] = "done" /\ event[j] = n}]
    /\ lease' = [lease EXCEPT ![i] = FALSE]
    /\ IF Notifications[n].data.ismap
       THEN /\ result' = [result EXCEPT ![i] = ResultOf(Notifications[n])]
            /\ pc' = [pc EXCEPT ![i] = "try"]
       ELSE /\ pc' = [pc EXCEPT ![i] = "raised"]
            /\ UNCHANGED result
    /\ UNCHANGED <<underscore_bound, out, log, holder, exists, answer, acq,
                   attempts, emitFailed, releaseCalls, releaseResult>>

\* Line 69 against the blob store: what the store does with an
\* acquire_lease request for blob u and what the caller gets.  A request that
\* fails on the way changes nothing and raises ("other"); a blob that does
\* not exist gives "notfound", a leased one "conflict"; otherwise the store
\* grants the lease, and the caller gets the handle ("ok") or, when the
\* answer is lost, an exception ("other").  The store answers at once: it
\* never waits for a lease to become free.
AcquireOutcomes(u) ==
    {[grant |-> FALSE, answer |-> "other"]} \cup
    (IF ~exists[u] THEN {[grant |-> FALSE, answer |-> "notfound"]}
     ELSE IF holder[u] # 0 THEN {[grant |-> FALSE, answer |-> "conflict"]}
     ELSE {[grant |-> TRUE, answer |-> "ok"],
           [grant |-> TRUE, answer |-> "other"]})

\* Lines 69-79: where control goes after the acquire attempt: on to line 70
\* when it returned, to the finally block when an except clause caught it.
AfterAcquireUnchecked(outcome) == "emit"
AfterAcquireRetry(outcome) ==
    IF outcome = "ok" THEN "emit"
    ELSE IF outcome = "conflict" THEN "try"
    ELSE "finally"
AfterAcquire(outcome) == IF outcome = "ok" THEN "emit" ELSE "finally"

\* Lines 71-79: the level each except clause logs at.
HandlerLevel(outcome) == IF outcome = "conflict" THEN "info" ELSE "error"

\* Lines 65-68 with the except clause of line 78: the credential or the
\* client cannot be built.  When _ does not resolve, line 67 raises
\* NameError; when it does, the constructors can still raise.  In both
\* cases acquire_lease is not called.
BuildClientFails(i) ==
    /\ pc[i] = "try"
    /\ acq' = [acq EXCEPT ![i] = IF underscore_bound THEN "other"
                                 ELSE "nameerror"]
    /\ log' = [log EXCEPT ![i] = Append(@, HandlerLevel("other"))]
    /\ pc' = [pc EXCEPT ![i] = "finally"]
    /\ UNCHANGED <<underscore_bound, event, result, lease, out, holder,
                   exists, answer, attempts, emitFailed, releaseCalls,
                   releaseResult, replays>>

\* Lines 65-69, up to the store handling the request: the client is built
\* and acquire_lease is called; the call does not return yet.
AcquireCall(i) ==
    /\ pc[i] = "try"
    /\ underscore_bound
    /\ attempts[i] < MaxAttempts
    /\ \E o \in AcquireOutcomes(UrlOf(i)) :
          /\ holder' = IF o.grant THEN [holder EXCEPT ![UrlOf(i)] = i]
                       ELSE holder
          /\ answer' = [answer EXCEPT ![i] = o.answer]
    /\ attempts' = [attempts EXCEPT ![i] = @ + 1]
    /\ pc' = [pc EXCEPT ![i] = "acquiring"]
    /\ UNCHANGED <<underscore_bound, event, result, lease, out, log, exists,
                   acq, emitFailed, releaseCalls, releaseResult, replays>>

\* Line 69 returning, with the except clauses 71-79: the handle is bound to
\* lease, or the exception is caught and logged.
AcquireReturn(i) ==
    /\ pc[i] = "acquiring"
    /\ acq' = [acq EXCEPT ![i] = answer[i]]
    /\ lease' = [lease EXCEPT ![i] = (answer[i] = "ok")]
    /\ log' = IF answer[i] = "ok"
              THEN log
              ELSE [log EXCEPT ![i] = Append(@, HandlerLevel(answer[i]))]
    /\ pc' = [pc EXCEPT ![i] = AfterAcquire(answer[i])]
    /\ answer' = [answer EXCEPT ![i] = "none"]
    /\ UNCHANGED <<underscore_bound, event, result, out, holder, exists,
                   attempts, emitFailed, releaseCalls, releaseResult, replays>>

\* Line 70: msg.set(json.dumps(result)).  When the call raises, line 78
\* catches it and logs.
Emit(i, ok) ==
    /\ pc[i] = "emit"
    /\ IF ok
       THEN /\ out' = [out EXCEPT ![i] = Append(@, QueueValue(result[i]))]
            /\ UNCHANGED <<log, emitFailed>>
       ELSE /\ log' = [log EXCEPT ![i] = Append(@, HandlerLevel("other"))]
            /\ emitFailed' = [emitFailed EXCEPT ![i] = TRUE]
            /\ UNCHANGED out
    /\ pc' = [pc EXCEPT ![i] = "finally"]
    /\ UNCHANGED <<underscore_bound, event, result, lease, holder, exists,
                   answer, acq, attempts, releaseCalls, releaseResult,
                   replays>>

\* Line 81: if lease and lease is not None
LeaseNever(l) == FALSE
LeaseAlways(l) == TRUE
LeaseTruthy(l) == l

\* What lease.release() can do: "ok" returns with the lease released;
\* "failed_held" raises with the lease still in place; "failed_freed" raises
\* although the store did release (the answer was lost).
ReleaseOutcomes == {"ok", "failed_held", "failed_freed"}

\* Lines 80-82, up to the store handling the request: with a handle,
\* release is called and does not return yet; without one the handler
\* returns.
Finally(i, r) ==
    /\ pc[i] = "finally"
    /\ IF LeaseTruthy(lease[i])
       THEN /\ releaseCalls' = [releaseCalls EXCEPT ![i] = @ + 1]
            /\ answer' = [answer EXCEPT ![i] = r]
            /\ holder' = IF r = "failed_held"
                         THEN holder
                         ELSE [holder EXCEPT ![UrlOf(i)] = 0]
            /\ pc' = [pc EXCEPT ![i] = "releasing"]
       ELSE /\ r = "ok"
            /\ pc' = [pc EXCEPT ![i] = "done"]
            /\ UNCHANGED <<releaseCalls, answer, holder>>
    /\ UNCHANGED <<underscore_bound, event, result, lease, out, log, exists,
                   acq, attempts, emitFailed, releaseResult, replays>>

\* Line 82 returning: the handler returns, or the exception of release(),
\* raised inside finally, leaves the handler.
ReleaseReturn(i) ==
    /\ pc[i] = "releasing"
    /\ releaseResult' = [releaseResult EXCEPT ![i] = answer[i]]
    /\ pc' = [pc EXCEPT ![i] = IF answer[i] = "ok" THEN "done" ELSE "raised"]
    /\ answer' = [answer EXCEPT ![i] = "none"]
    /\ UNCHANGED <<underscore_bound, event, result, lease, out, log, holder,
                   exists, acq, attempts, emitFailed, releaseCalls, replays>>

\* The blob is deleted or moved between the event and its processing (the
\* store refuses to delete a leased blob).
DeleteBlob(u) ==
    /\ exists[u]
    /\ holder[u] = 0
    /\ exists' = [exists EXCEPT ![u] = FALSE]
    /\ UNCHANGED <<underscore_bound, pc, event, result, lease, out, log,
                   holder, answer, acq, attempts, emitFailed, releaseCalls,
                   releaseResult, replays>>

\* Another process (a downstream consumer, an operator) takes or gives back
\* a lease on the blob.
ExternalAcquire(u) ==
    /\ exists[u]
    /\ holder[u] = 0
    /\ holder' = [holder EXCEPT ![u] = External]
    /\ UNCHANGED <<underscore_bound, pc, event, result, lease, out, log,
                   exists, answer, acq, attempts, emitFailed, releaseCalls,
                   releaseResult, replays>>

ExternalRelease(u) ==
    /\ holder[u] = External
    /\ holder' = [holder EXCEPT ![u] = 0]
    /\ UNCHANGED <<underscore_bound, pc, event, result, lease, out, log,
                   exists, answer, acq, attempts, emitFailed, releaseCalls,
                   releaseResult, replays>>

Step(i) ==
    \/ BuildClientFails(i)
    \/ AcquireCall(i)
    \/ AcquireReturn(i)
    \/ \E ok \in BOOLEAN : Emit(i, ok)
    \/ \E r \in ReleaseOutcomes : Finally(i, r)
    \/ ReleaseReturn(i)

Next ==
    \/ \E i \in Inv : \E n \in NotifIds : Start(i, n)
    \/ \E i \in Inv : Step(i)
    \/ \E u \in Urls : DeleteBlob(u)
    \/ \E u \in Urls : ExternalAcquire(u)
    \/ \E u \in Urls : ExternalRelease(u)

Spec == Init /\ [][Next]_vars

\* The handler body runs sequentially to its end once started: every step
\* of a started invocation is eventually taken.
LiveSpec == Spec /\ \A i \in Inv : WF_vars(Step(i))

TypeOK ==
    /\ pc \in [Inv -> {"idle", "try", "acquiring", "emit", "finally",
                       "releasing", "done", "raised"}]
    /\ event \in [Inv -> NotifIds]
    /\ lease \in [Inv -> BOOLEAN]
    /\ holder \in [Urls -> 0..External]
    /\ exists \in [Urls -> BOOLEAN]

----------------------------------------------------------------------------
\* Definitions used to state the properties.

\* The invocation holds the lease as far as it knows: acquire_lease has
\* returned a handle and release has not been called yet.
Holding(i) == lease[i] /\ pc[i] \in {"emit", "finally"}

\* The part of a string after its last "/" (the whole string without one).
LastSegment(s) ==
    LET slashes == {k \in 1..Len(s) : s[k] = "/"}
    IN  IF slashes = {} THEN s
        ELSE SubSeq(s, (CHOOSE k \in slashes : \A m \in slashes : m <= k) + 1,
                    Len(s))

\* A payload field as the message is to carry it: null when missing.
PayloadField(n, f) == IF n.data[f] = Absent THEN None ELSE n.data[f]

\* The record the queue message is specified to carry, and its field order.
SpecKeys ==
    <<[name |-> "id", chars |-> <<"i", "d">>],
      [name |-> "source", chars |-> <<"s", "o", "u", "r", "c", "e">>],
      [name |-> "blob_name", chars |-> <<"b", "l", "o", "b", "_", "n", "a", "m", "e">>],
      [name |-> "blob_url", chars |-> <<"b", "l", "o", "b", "_", "u", "r", "l">>],
      [name |-> "blob_type", chars |-> <<"b", "l", "o", "b", "_", "t", "y", "p", "e">>],
      [name |-> "content_type", chars |-> <<"c", "o", "n", "t", "e", "n", "t", "_", "t", "y", "p", "e">>],
      [name |-> "content_length", chars |-> <<"c", "o", "n", "t", "e", "n", "t", "_", "l", "e", "n", "g", "t", "h">>],
      [name |-> "topic", chars |-> <<"t", "o", "p", "i", "c">>],
      [name |-> "subject", chars |-> <<"s", "u", "b", "j", "e", "c", "t">>],
      [name |-> "event_type", chars |-> <<"e", "v", "e", "n", "t", "_", "t", "y", "p", "e">>]>>

SpecRecord(n) ==
    [id |-> n.id,
     source |-> Str(<<"f", "i", "l", "e">>),
     blob_name |-> Str(LastSegment(n.subject.v)),
     blob_url |-> PayloadField(n, "url"),
     blob_type |-> PayloadField(n, "blobType"),
     content_type |-> PayloadField(n, "contentType"),
     content_length |-> PayloadField(n, "contentLength"),
     topic |-> n.topic,
     subject |-> n.subject,
     event_type |-> n.event_type]

\* The optional payload fields and the message field each one feeds.
OptionalFields == {"blobType", "contentType", "contentLength"}

MessageKey(f) ==
    IF f = "blobType" THEN "blob_type"
    ELSE IF f = "contentType" THEN "content_type"
    ELSE "content_length"

\* The notification n with the payload field f present.
WithField(n, f) == [n EXCEPT !.data = [n.data EXCEPT ![f] = Str(<<"x">>)]]

----------------------------------------------------------------------------
\* C1 as stated: an invocation that has ended wrote exactly one message if
\* its lease acquisition succeeded and none if it did not.
C1_OnePerAcquisition ==
    \A i \in Inv :
        Ended(i) => Len(out[i]) = (IF acq[i] = "ok" THEN 1 ELSE 0)

\* C1 amended: no invocation ever writes more than one message, a message
\* is written only after a successful lease acquisition, and an invocation
\* that has ended wrote exactly one message if its lease acquisition
\* succeeded and the write itself did not raise, and none otherwise.
C1_OnePerSuccess ==
    \A i \in Inv :
        /\ Len(out[i]) <= 1
        /\ Len(out[i]) = 1 => acq[i] = "ok"
        /\ Ended(i) =>
              Len(out[i]) = (IF acq[i] = "ok" /\ ~emitFailed[i] THEN 1 ELSE 0)

C1_Witness ==
    \E i, j \in Inv :
        /\ Ended(i) /\ acq[i] = "ok" /\ Len(out[i]) = 1
        /\ Ended(j) /\ acq[j] \in {"conflict", "notfound", "other"}
        /\ Len(out[j]) = 0

\* C2: every message written is the JSON text, encoded once, of the record
\* with the fields id, source, blob_name, blob_url, blob_type, content_type,
\* content_length, topic, subject, event_type taken from the notification.
C2_MessageIsRecord ==
    \A i \in Inv : \A k \in 1..Len(out[i]) :
        out[i][k] = JsonDumpsDict(SpecRecord(Notif(i)), SpecKeys)

\* C3 as stated: an invocation that obtained a lease handle has called
\* release when it ends, and does not end while the blob store still records
\* it as the holder.
C3_NoLeaseLeftBehind ==
    \A i \in Inv :
        Ended(i) /\ acq[i] = "ok" =>
            releaseCalls[i] = 1 /\ holder[UrlOf(i)] # i

\* C3 amended: an invocation that obtained a lease handle has called release
\* exactly once when it ends, on the success path and when the write raised
\* alike, and it is no longer the holder if that release call returned.
C3_ReleaseInvoked ==
    \A i \in Inv :
        Ended(i) /\ acq[i] = "ok" =>
            /\ releaseCalls[i] = 1
            /\ releaseResult[i] = "ok" => holder[UrlOf(i)] # i

C3_Witness ==
    \E i, j \in Inv :
        /\ pc[i] = "done" /\ acq[i] = "ok" /\ emitFailed[i]
        /\ releaseCalls[i] = 1
        /\ pc[j] = "done" /\ acq[j] = "ok" /\ Len(out[j]) = 1
        /\ releaseCalls[j] = 1

\* C4: an invocation whose lease acquisition was rejected with a conflict or
\* with not-found writes no message, never calls release and ends by
\* returning, not by raising.
C4_RejectedAcquire ==
    \A i \in Inv :
        acq[i] \in {"conflict", "notfound"} =>
            /\ out[i] = <<>>
            /\ releaseCalls[i] = 0
            /\ pc[i] \in {"finally", "done"}

C4_Witness ==
    \E i, j \in Inv :
        /\ pc[i] = "done" /\ acq[i] = "conflict" /\ log[i] = <<"info">>
        /\ pc[j] = "done" /\ acq[j] = "notfound" /\ log[j] = <<"error">>

\* C5: no invocation ends by raising to its caller.
C5_NothingPropagates == \A i \in Inv : pc[i] # "raised"

\* C6: two invocations for the same blob are never both between the return
\* of acquire_lease and the call of release, an invocation in that span is
\* the holder the blob store records, and an invocation whose acquire
\* attempt met a held lease writes no message, makes no second attempt and
\* ends by returning.
C6_LeaseArbitration ==
    /\ \A i, j \in Inv :
          i # j /\ Holding(i) /\ Holding(j) => UrlOf(i) # UrlOf(j)
    /\ \A i \in Inv :
          /\ Holding(i) => holder[UrlOf(i)] = i
          /\ acq[i] = "conflict" =>
                /\ out[i] = <<>>
                /\ attempts[i] = 1
                /\ pc[i] \in {"finally", "done"}

C6_Witness ==
    \E i, j \in Inv :
        /\ i # j /\ UrlOf(i) = UrlOf(j)
        /\ pc[i] = "done" /\ acq[i] = "conflict"
        /\ Holding(j) /\ holder[UrlOf(j)] = j

\* C7: for a notification whose payload lacks an optional field, an
\* invocation that acquired the lease and whose write did not raise has
\* written one message, and that message is the one written for the same
\* notification with the field present, except that the field is null.
C7_MissingFieldIsNull ==
    \A i \in Inv : \A f \in OptionalFields :
        /\ Ended(i) /\ acq[i] = "ok" /\ ~emitFailed[i]
        /\ Notif(i).data[f] = Absent
        => /\ Len(out[i]) = 1
           /\ out[i][1] =
                QueueValue(JsonDumpsDict(
                    [ResultDict(WithField(Notif(i), f))
                        EXCEPT ![MessageKey(f)] = None],
                    ResultKeys))

C7_Witness ==
    \E i, j \in Inv :
        /\ Notif(i) = NotifSparse /\ pc[i] = "done" /\ Len(out[i]) = 1
        /\ Notif(i).data.contentLength = Absent
        /\ Notif(j) = NotifFull /\ pc[j] = "done" /\ Len(out[j]) = 1

\* C8: when a notification is replayed in a second invocation started after
\* the first has returned, and neither invocation met a lease held by
\* another party or a failing collaborator, each has written one message
\* and the two messages are equal.
C8_ReplayTwice ==
    \A i, j \in Inv :
        /\ i \in replays[j] /\ event[i] = event[j]
        /\ pc[i] = "done" /\ pc[j] = "done"
        /\ acq[i] \notin {"conflict", "notfound", "other"} /\ ~emitFailed[i]
        /\ acq[j] \notin {"conflict", "notfound", "other"} /\ ~emitFailed[j]
        => /\ Len(out[i]) = 1
           /\ Len(out[j]) = 1
           /\ out[i] = out[j]

\* C9: every invocation makes at most one acquire attempt, and no
\* invocation stays in processing forever: from some point on it has ended
\* (or was never started), whatever the other invocations and the lease
\* holders do.
C9_EveryInvocationEnds ==
    /\ [](\A i \in Inv : attempts[i] <= 1)
    /\ \A i \in Inv : <>[](pc[i] = "idle" \/ Ended(i))

C9_Witness ==
    \E i, j \in Inv :
        /\ i # j /\ UrlOf(i) = UrlOf(j)
        /\ pc[i] = "done" /\ acq[i] = "conflict" /\ attempts[i] = 1
        /\ pc[j] \in {"acquiring", "emit", "finally"}
        /\ holder[UrlOf(j)] = j

\* C10: a step that writes the message is taken by an invocation that has
\* acquired the lease, still holds it and has not called release; a step
\* that calls release is taken by an invocation that acquired the lease
\* itself, is its holder and has not called release before.
C10_AcquireEmitRelease ==
    [][\A i \in Inv :
          /\ out'[i] # out[i] =>
                /\ acq[i] = "ok" /\ lease[i]
                /\ holder[UrlOf(i)] = i
                /\ releaseCalls[i] = 0
          /\ releaseCalls'[i] # releaseCalls[i] =>
                /\ acq[i] = "ok" /\ lease[i]
                /\ holder[UrlOf(i)] = i
                /\ releaseCalls[i] = 0]_vars

C10_Witness ==
    \E i, j \in Inv :
        /\ i # j /\ UrlOf(i) = UrlOf(j)
        /\ pc[i] = "done" /\ acq[i] = "conflict" /\ releaseCalls[i] = 0
        /\ pc[j] = "done" /\ Len(out[j]) = 1 /\ releaseCalls[j] = 1
        /\ holder[UrlOf(j)] = 0

====
